---------------------------- MODULE Spec2Model ----------------------------
(***************************************************************************)
(* Model of the handover plugin (src/lib/handover.js, the revision at      *)
(* lines 300-601): the root-server middleware ns.middle, the plugin        *)
(* lifecycle open / 'full' / close, resolveHNS, sendSOA, toNSEC and        *)
(* sendData.                                                               *)
(*                                                                         *)
(* Domain names are sequences of labels (the string "www.eth." is          *)
(* <<"www", "eth">>, the root "." is <<>>).  Buffers are sequences of      *)
(* bytes, or, for the payload of the external resolver, the sequence of    *)
(* records the bytes hold plus a flag telling whether wire.Record.read     *)
(* fails on them.                                                          *)
(***************************************************************************)
EXTENDS Integers, Sequences, FiniteSets, TLC

VARIABLES
    ready,      \* this.ready
    plug,       \* open(): "new" not called, "opening" awaiting init, "open" returned
    closed,     \* close() was called
    listening,  \* the 'full' listener of open() is registered
    full,       \* node.chain.isFull()
    inits,      \* calls of ethereum.init() in flight: sequence of "open"/"full"
    nInit,      \* number of calls of ethereum.init() made so far
    nReady,     \* number of times this.ready was assigned true
    nFull,      \* number of 'full' events emitted so far
    cache,      \* ns.cache: set of [name, type, res]
    pc,         \* per query task: where ns.middle is suspended
    q,          \* per task: the arguments (tld, req) of ns.middle
    gate,       \* per task: value of this.ready read at line 344
    loc,        \* per task: the local variables of ns.middle
    log,        \* per task: the calls made to the collaborators, in order
    resp,       \* per task: the message ns.middle resolved to
    fnArgs,     \* arguments of a direct call of sendSOA / sendData
    fnRes       \* result of that call

vars == <<ready, plug, closed, listening, full, inits, nInit, nReady, nFull, cache,
          pc, q, gate, loc, log, resp, fnArgs, fnRes>>

lifeVars == <<ready, plug, closed, listening, full, inits, nInit, nReady, nFull>>
taskVars == <<cache, pc, q, gate, loc, log, resp>>
fnVars   == <<fnArgs, fnRes>>

---------------------------------------------------------------------------
(* Bounds of the model *)

MaxLabels  == 2   \* longest query name, in labels
MaxAuth    == 2   \* longest authority section of a native response
MaxRecs    == 3   \* longest payload handed to sendData directly, in records
MaxFull    == 1   \* 'full' events emitted in one run

---------------------------------------------------------------------------
(* wire.types and wire.codes of bns, as used by the plugin *)

A          == 1
NS         == 2
CNAME      == 5
SOA        == 6
HINFO      == 13
MX         == 15
TXT        == 16
AAAA       == 28
LOC        == 29
SRV        == 33
NAPTR      == 35
CERT       == 37
DS         == 43
SSHFP      == 44
RRSIG      == 46
NSEC       == 47
DNSKEY     == 48
TLSA       == 52
SMIMEA     == 53
HIP        == 55
CDS        == 59
CDNSKEY    == 60
OPENPGPKEY == 61
SPF        == 99
URI        == 256
CAA        == 257

NOERROR    == 0
REFUSED    == 5

\* Buffer.from('0006000000000003', 'hex')
TYPE_MAP_EMPTY == <<0, 6, 0, 0, 0, 0, 0, 3>>

\* TYPE_MAP_ALL with NS, CNAME, SOA and DS listed as well
TYPE_MAP_ENUMERATED ==
    << A, NS, CNAME, SOA, HINFO, MX,
       TXT, AAAA, LOC, SRV,
       NAPTR, CERT, DS, SSHFP, RRSIG,
       NSEC, DNSKEY, TLSA, SMIMEA,
       HIP, CDS, CDNSKEY, OPENPGPKEY,
       SPF, URI, CAA >>

TYPE_MAP_ALL ==
    << A, HINFO, MX,
       TXT, AAAA, LOC, SRV,
       NAPTR, CERT, SSHFP, RRSIG,
       NSEC, DNSKEY, TLSA, SMIMEA,
       HIP, CDS, CDNSKEY, OPENPGPKEY,
       SPF, URI, CAA >>

---------------------------------------------------------------------------
(* Helpers on sequences and sets *)

Range(s) == { s[i] : i \in 1..Len(s) }

RECURSIVE SumSet(_)
SumSet(S) ==
    IF S = {} THEN 0
    ELSE LET x == CHOOSE y \in S : TRUE IN x + SumSet(S \ {x})

MaxOf(S) == CHOOSE x \in S : \A y \in S : y <= x

Pow2(n) == CASE n = 0 -> 1  [] n = 1 -> 2  [] n = 2 -> 4  [] n = 3 -> 8
             [] n = 4 -> 16 [] n = 5 -> 32 [] n = 6 -> 64 [] OTHER -> 128

\* Array.prototype.filter
RECURSIVE Filter(_, _)
Filter(s, drop) ==
    IF s = <<>> THEN <<>>
    ELSE IF Head(s) = drop THEN Filter(Tail(s), drop)
         ELSE <<Head(s)>> \o Filter(Tail(s), drop)

---------------------------------------------------------------------------
(* Strings *)

\* String.prototype.toLowerCase on the labels the model uses
ToLowerCase(s) ==
    CASE s = "ETH"    -> "eth"
      [] s = "COM"    -> "com"
      [] s = "WWW"    -> "www"
      [] OTHER        -> s

LowerName(name) == [ i \in 1..Len(name) |-> ToLowerCase(name[i]) ]

\* util.label(name, util.split(name), -1): the final label of a name
Ending(name) == IF name = <<>> THEN "" ELSE name[Len(name)]

---------------------------------------------------------------------------
(* Resource records and messages *)

NoBitmap == <<>>

RR(name, type) ==
    [ name |-> name, type |-> type, ttl |-> 0, ns |-> <<>>,
      nextDomain |-> <<>>, typeBitmap |-> NoBitmap, covered |-> 0 ]

NSRecord(name, target) == [ RR(name, NS) EXCEPT !.ns = target ]

\* new wire.Message()
Message ==
    [ code |-> NOERROR, aa |-> FALSE, question |-> <<>>,
      answer |-> <<>>, authority |-> <<>> ]

\* NSECRecord.setTypes: the RFC 4034 type bitmap, one block per window
\* (window number, length in bytes, the bytes, most significant bit first)
WindowBlock(types, w) ==
    LET lows == { t % 256 : t \in { u \in types : u \div 256 = w } }
        len  == MaxOf(lows) \div 8 + 1
        byte(k) == SumSet({ Pow2(7 - (l % 8)) : l \in { m \in lows : m \div 8 = k } })
    IN  <<w, len>> \o [ k \in 1..len |-> byte(k - 1) ]

RECURSIVE Blocks(_, _)
Blocks(types, w) ==
    IF \A t \in types : t \div 256 < w THEN <<>>
    ELSE IF \E t \in types : t \div 256 = w
         THEN WindowBlock(types, w) \o Blocks(types, w + 1)
         ELSE Blocks(types, w + 1)

SetTypes(typeMap) == Blocks(Range(typeMap), 0)

\* ns.signRRSet(section, type): the host signs the records of that type of
\* the section and appends the signature, if there are any to sign
SigRecord(name, type) == [ RR(name, RRSIG) EXCEPT !.covered = type ]

SignRRSet(section, type) ==
    IF \E i \in 1..Len(section) : section[i].type = type
    THEN LET first == CHOOSE i \in 1..Len(section) :
                         /\ section[i].type = type
                         /\ \A j \in 1..(i - 1) : section[j].type # type
         IN  Append(section, SigRecord(section[first].name, type))
    ELSE section

\* ns.toSOA()
ToSOA == RR(<<>>, SOA)

\* One call of a collaborator, as recorded in the log of a query:
\* cache.get / cache.set / ns.response / resolveDnsFromEns /
\* resolveDnsFromAbstractEns with (name, type) and the delegation target,
\* signRRSet / toSOA with the section as it is handed over.
Call(op, name, type) ==
    [ op |-> op, name |-> name, type |-> type, target |-> <<>>,
      sec |-> "", rrs |-> <<>>, out |-> "" ]

AdapterCall(op, name, type, target) ==
    [ Call(op, name, type) EXCEPT !.target = target ]

\* of the section handed to the signer the log keeps the record types
SignCall(sec, type, section) ==
    [ Call("signRRSet", <<>>, type) EXCEPT
        !.sec = sec,
        !.rrs = [ i \in 1..Len(section) |-> section[i].type ] ]

---------------------------------------------------------------------------
(* Plugin.toNSEC and Plugin.sendSOA *)

\* "\\000." + name, as labels: the name "." leaves an empty label behind
ToNSEC(name) ==
    [ RR(name, NSEC) EXCEPT
        !.ttl = 36 * 10 * 60,
        !.nextDomain = <<"\\000">> \o (IF name = <<>> THEN <<"">> ELSE name) ]

\* TYPE_MAP_ALL.filter((v) => v !== type), with the filter left out
TypeMapUnfiltered(type) == TYPE_MAP_ALL

\* TYPE_MAP_ALL.filter((v) => v !== type)
TypeMap(type) == Filter(TYPE_MAP_ALL, type)

\* sendSOA with the SOA record pushed before the NSEC record is signed
SendSOASignsLate(name, tld, type) ==
    LET nsec0 == ToNSEC(name)
        nsec  == IF name = tld
                 THEN [ nsec0 EXCEPT !.typeBitmap = TYPE_MAP_EMPTY ]
                 ELSE [ nsec0 EXCEPT !.typeBitmap = SetTypes(TypeMap(type)) ]
        auth1 == << nsec, ToSOA >>
        auth2 == SignRRSet(auth1, NSEC)
        auth3 == SignRRSet(auth2, SOA)
    IN  [ threw |-> FALSE,
          res   |-> [ Message EXCEPT !.aa = TRUE, !.authority = auth3 ],
          calls |-> << Call("toSOA", <<>>, SOA),
                       SignCall("authority", NSEC, auth1),
                       SignCall("authority", SOA, auth2) >> ]

\* The result is the message and the calls made to the host while building it
SendSOA(name, tld, type) ==
    LET nsec0 == ToNSEC(name)
        nsec  == IF name = tld
                 THEN [ nsec0 EXCEPT !.typeBitmap = TYPE_MAP_EMPTY ]
                 ELSE [ nsec0 EXCEPT !.typeBitmap = SetTypes(TypeMap(type)) ]
        auth1 == <<nsec>>
        auth2 == SignRRSet(auth1, NSEC)
        auth3 == Append(auth2, ToSOA)
        auth4 == SignRRSet(auth3, SOA)
    IN  [ threw |-> FALSE,
          res   |-> [ Message EXCEPT !.aa = TRUE, !.authority = auth4 ],
          calls |-> << SignCall("authority", NSEC, auth1),
                       Call("toSOA", <<>>, SOA),
                       SignCall("authority", SOA, auth3) >> ]

---------------------------------------------------------------------------
(* Plugin.sendData *)

\* The value of the variable `data` of ns.middle: undefined, null or a Buffer.
\* A Buffer is the records it holds, and whether bytes that wire.Record.read
\* cannot read follow them.
Undefined   == [ kind |-> "undefined", recs |-> <<>>, bad |-> FALSE ]
Null        == [ kind |-> "null", recs |-> <<>>, bad |-> FALSE ]
Buffer(recs, bad) == [ kind |-> "buffer", recs |-> recs, bad |-> bad ]

\* data && data.length > 0
HasData(data) ==
    /\ data.kind = "buffer"
    /\ (Len(data.recs) > 0 \/ data.bad)

\* lines 573-578 without the test for NS records
SectionByTypeOnly(rr, type) ==
    IF rr.type = type \/ rr.type = CNAME THEN "answer" ELSE "authority"

\* lines 573-578: the section a record is pushed to
Section(rr, type) ==
    IF rr.type = NS THEN "authority"
    ELSE IF rr.type = type \/ rr.type = CNAME THEN "answer"
    ELSE "authority"

\* the while loop of sendData over the records of the buffer
RECURSIVE Partition(_, _, _)
Partition(recs, type, res) ==
    IF recs = <<>> THEN res
    ELSE LET rr == Head(recs) IN
         IF Section(rr, type) = "answer"
         THEN Partition(Tail(recs), type,
                        [ res EXCEPT !.answer = Append(@, rr) ])
         ELSE Partition(Tail(recs), type,
                        [ res EXCEPT !.authority = Append(@, rr) ])

\* line 582 with the test of the authority section left out
IsReferralAnswerOnly(res) == Len(res.answer) = 0

\* line 582
IsReferral(res) == Len(res.answer) = 0 /\ Len(res.authority) > 0

\* lines 583-584 without the assignment of res.aa
ReferralAnswerKeepsAA(res) == [ res EXCEPT !.authority = SignRRSet(@, DS) ]

\* lines 583-584
ReferralAnswer(res) ==
    [ res EXCEPT !.aa = FALSE, !.authority = SignRRSet(@, DS) ]

NoMessage == [ Message EXCEPT !.code = -1 ]

SendData(data, type) ==
    IF data.bad
    THEN \* wire.Record.read throws
         [ threw |-> TRUE, res |-> NoMessage, calls |-> <<>> ]
    ELSE
    LET res1     == Partition(data.recs, type, [ Message EXCEPT !.aa = TRUE ])
        referral == IsReferral(res1)
        res2     == IF referral THEN ReferralAnswer(res1) ELSE res1
        res3     == [ res2 EXCEPT !.answer = SignRRSet(@, type) ]
        res4     == IF type # CNAME
                    THEN [ res3 EXCEPT !.answer = SignRRSet(@, CNAME) ]
                    ELSE res3
    IN  [ threw |-> FALSE,
          res   |-> res4,
          calls |-> (IF referral
                     THEN << SignCall("authority", DS, res1.authority) >>
                     ELSE <<>>)
                    \o << SignCall("answer", type, res2.answer) >>
                    \o (IF type # CNAME
                        THEN << SignCall("answer", CNAME, res3.answer) >>
                        ELSE <<>>) ]

---------------------------------------------------------------------------
(* The external resolver (this.ethereum) and the host responder *)

\* What a call of resolveDnsFromEns / resolveDnsFromAbstractEns comes to:
\* it throws, or it returns null or a Buffer
Throws        == [ threw |-> TRUE,  data |-> Undefined ]
Returns(data) == [ threw |-> FALSE, data |-> data ]

OutcomeKind(out) ==
    IF out.threw THEN "throw"
    ELSE IF out.data.kind # "buffer" THEN "null"
    ELSE IF out.data.bad THEN "malformed"
    ELSE IF out.data.recs = <<>> THEN "empty"
    ELSE "records"

\* The outcomes the model draws for a query of `name`: failure, null, the
\* empty Buffer, one address record, one delegation (NS) record, and an
\* address record followed by bytes that do not decode
EnsOutcomes(name) ==
    { Throws,
      Returns(Null),
      Returns(Buffer(<<>>, FALSE)),
      Returns(Buffer(<< RR(name, A) >>, FALSE)),
      Returns(Buffer(<< NSRecord(name, <<"ns", "example">>) >>, FALSE)),
      Returns(Buffer(<< RR(name, A) >>, TRUE)) }

\* The authority records the model lets the host responder return for a
\* name under `tld`: delegations to an .eth target, to an ._eth target and
\* to an ordinary nameserver, and a record that is not of type NS
AuthorityRRs(tld) ==
    { NSRecord(tld, <<"ns", "eth">>),
      NSRecord(tld, <<"0x36fc", "_eth">>),
      NSRecord(tld, <<"ns1", "example">>),
      RR(tld, DS) }

RECURSIVE SeqsUpTo(_, _)
SeqsUpTo(S, n) ==
    IF n = 0 THEN { <<>> }
    ELSE LET shorter == SeqsUpTo(S, n - 1)
         IN  shorter \cup { Append(s, x) : s \in shorter, x \in S }

\* ns.response(req): any message of the host for the question of req
NativeResponses(name, type) ==
    LET tld  == IF name = <<>> THEN <<>> ELSE << ToLowerCase(Ending(name)) >>
        base == [ Message EXCEPT !.question = << [ name |-> name, type |-> type ] >> ]
    IN  { [ base EXCEPT !.authority = a ] : a \in SeqsUpTo(AuthorityRRs(tld), MaxAuth) }
        \cup { [ base EXCEPT !.aa = TRUE, !.answer = << RR(name, type) >> ] }

---------------------------------------------------------------------------
(* The queries the model sends *)

TldLabels == { "eth", "ETH", "_eth", "com", "_synth" }

RECURSIVE Sub(_, _)
Sub(tld, n) == IF n <= 1 THEN << tld >> ELSE << "www" >> \o Sub(tld, n - 1)

\* "." and, under every tld, the names of 1 .. MaxLabels labels
QueryNames ==
    { <<>> } \cup { Sub(tld, n) : tld \in TldLabels, n \in 1..MaxLabels }

QueryTypes == { A, DS }

\* hsd hands over the tld of the name as it was sent
TldOf(name) == IF name = <<>> THEN <<>> ELSE << Ending(name) >>

---------------------------------------------------------------------------
(* ns.cache *)

CacheGet(c, name, type) ==
    { e \in c : e.name = name /\ e.type = type }

\* ns.cache.set keeping the entry a key already has
CacheSetKeepsFirst(c, name, type, res) ==
    IF \E e \in c : e.name = name /\ e.type = type
    THEN c
    ELSE c \cup { [ name |-> name, type |-> type, res |-> res ] }

CacheSet(c, name, type, res) ==
    { e \in c : ~(e.name = name /\ e.type = type) }
        \cup { [ name |-> name, type |-> type, res |-> res ] }

---------------------------------------------------------------------------
(* ns.middle.  A frame is the state of one call: where it is suspended,    *)
(* its locals, the calls it has made, its outcome, and the cache it sees.  *)
(* Each operator below runs the code from one point to the next await or   *)
(* to the return.                                                          *)

NoLocals ==
    [ tld |-> <<>>, name |-> <<>>, type |-> 0,
      originalRes |-> NoMessage, res |-> NoMessage,
      data |-> Undefined, hip5Referral |-> FALSE, i |-> 0 ]

Logged(f, calls) == [ f EXCEPT !.log = @ \o calls ]

\* return <message>
ReturnRes(f, res) == [ f EXCEPT !.pc = "done", !.resp = res ]

\* return this.sendSOA(name, tld, type)
ReturnSOA(f) ==
    LET out == SendSOA(f.loc.name, f.loc.tld, f.loc.type)
    IN  ReturnRes(Logged(f, out.calls), out.res)

\* return this.sendData(data, type), outside of any try block
ReturnData(f) ==
    LET out == SendData(f.loc.data, f.loc.type)
    IN  IF out.threw
        THEN [ f EXCEPT !.pc = "threw", !.resp = NoMessage ]
        ELSE ReturnRes(Logged(f, out.calls), out.res)

\* lines 461-476 without the test of hip5Referral
FallbackPassesThrough(f) ==
    IF ~HasData(f.loc.data)
    THEN ReturnRes(f, f.loc.originalRes)
    ELSE ReturnData(f)

\* lines 461-476
Fallback(f) ==
    IF ~HasData(f.loc.data)
    THEN IF f.loc.hip5Referral
         THEN ReturnSOA(f)
         ELSE ReturnRes(f, f.loc.originalRes)
    ELSE ReturnData(f)

\* line 418 as the earlier revision had it: .eth targets only
RecognizedEthOnly(ending) == ending = "eth"

\* line 418
Recognized(ending) == ending = "_eth" \/ ending = "eth"

\* line 423 with the bound off by one
MinimalReferralOffByOne(labels) == Len(labels) < 1

\* line 423
MinimalReferral(labels) == Len(labels) < 2

\* lines 410-459: the loop over res.authority, from index i on, up to the
\* await of the next call of the external resolver
RECURSIVE Scan(_, _)
Scan(f, i) ==
    IF i > Len(f.loc.res.authority) THEN Fallback(f)
    ELSE LET rr     == f.loc.res.authority[i]
             ending == Ending(rr.ns)
         IN  IF rr.type # NS THEN Scan(f, i + 1)
             ELSE IF Recognized(ending)
             THEN LET g == [ f EXCEPT !.loc.hip5Referral = TRUE ]
                  IN  IF MinimalReferral(g.loc.name)
                      THEN ReturnSOA(g)
                      ELSE [ Logged(g, << AdapterCall(
                                 IF ending = "eth" THEN "resolveDnsFromEns"
                                 ELSE "resolveDnsFromAbstractEns",
                                 g.loc.name, g.loc.type, rr.ns) >>)
                             EXCEPT !.pc = "referral", !.loc.i = i ]
             ELSE Scan(f, i + 1)

\* lines 404-408 without the bypass of lines 405-406
ExamineNoBypass(f) == Scan([ f EXCEPT !.loc.hip5Referral = FALSE ], 1)

\* lines 404-408
Examine(f) ==
    IF Len(f.loc.res.authority) = 0
    THEN ReturnRes(f, f.loc.res)
    ELSE Scan([ f EXCEPT !.loc.hip5Referral = FALSE ], 1)

\* lines 520-522 without the test of the synthetic zone
CachedAlways(f, name, type, res) ==
    [ Logged(f, << Call("cache.set", name, type) >>)
      EXCEPT !.cache = CacheSet(@, name, type, res) ]

\* lines 520-522 with the response stored under the type of the query
CachedUnderQueryType(f, name, type, res) ==
    IF f.loc.tld # << "_synth" >>
    THEN [ Logged(f, << Call("cache.set", name, f.loc.type) >>)
           EXCEPT !.cache = CacheSet(@, name, f.loc.type, res) ]
    ELSE f

\* resolveHNS(req, name, type, tld), after ns.response(req) has returned res
Cached(f, name, type, res) ==
    IF f.loc.tld # << "_synth" >>
    THEN [ Logged(f, << Call("cache.set", name, type) >>)
           EXCEPT !.cache = CacheSet(@, name, type, res) ]
    ELSE f

\* lines 395-402, after the second resolveHNS has returned res
AfterRelookup(f, res) == Examine([ f EXCEPT !.loc.res = res ])

\* resolveHNS({question: [Question(name, NS)]}, name, NS, tld), to its await
Relookup(f) ==
    LET g   == Logged(f, << Call("cache.get", f.loc.name, NS) >>)
        hit == CacheGet(f.cache, f.loc.name, NS)
    IN  IF hit # {}
        THEN AfterRelookup(g, (CHOOSE e \in hit : TRUE).res)
        ELSE [ Logged(g, << Call("ns.response", f.loc.name, NS) >>)
               EXCEPT !.pc = "relookup" ]

\* lines 386-402, after the first resolveHNS has returned res
AfterLookup(f, res) ==
    LET g == [ f EXCEPT !.loc.originalRes = res ]
    IN  IF g.loc.type = DS /\ Len(g.loc.name) = 1
        THEN Relookup(g)
        ELSE Examine([ g EXCEPT !.loc.res = res ])

\* resolveHNS(req, name, type, tld), to its await; reqName is qs.name
Lookup(f, reqName) ==
    LET g   == Logged(f, << Call("cache.get", f.loc.name, f.loc.type) >>)
        hit == CacheGet(f.cache, f.loc.name, f.loc.type)
    IN  IF hit # {}
        THEN AfterLookup(g, (CHOOSE e \in hit : TRUE).res)
        ELSE [ Logged(g, << Call("ns.response", reqName, f.loc.type) >>)
               EXCEPT !.pc = "lookup" ]

\* line 366 with the bound off by one
MinimalDirectOffByOne(labels) == Len(labels) < 1

\* line 366
MinimalDirect(labels) == Len(labels) < 2

\* lines 351-386 without the case '_eth.' of the switch
RouteNoPlaceholder(f, tld0, qsName, qsType) ==
    LET tld  == LowerName(tld0)
        name == LowerName(qsName)
        g    == [ f EXCEPT !.loc = [ NoLocals EXCEPT !.tld = tld, !.name = name,
                                                     !.type = qsType ] ]
    IN  IF tld = << "eth" >>
        THEN IF MinimalDirect(name)
             THEN ReturnSOA(g)
             ELSE [ Logged(g, << AdapterCall("resolveDnsFromEns", name, qsType, <<>>) >>)
                    EXCEPT !.pc = "direct" ]
        ELSE Lookup(g, qsName)

\* lines 351-386: from the lowercasing of tld to the first await
Route(f, tld0, qsName, qsType) ==
    LET tld  == LowerName(tld0)
        name == LowerName(qsName)
        g    == [ f EXCEPT !.loc = [ NoLocals EXCEPT !.tld = tld, !.name = name,
                                                     !.type = qsType ] ]
    IN  IF tld = << "eth" >>
        THEN IF MinimalDirect(name)
             THEN ReturnSOA(g)
             ELSE [ Logged(g, << AdapterCall("resolveDnsFromEns", name, qsType, <<>>) >>)
                    EXCEPT !.pc = "direct" ]
        ELSE IF tld = << "_eth" >>
        THEN ReturnSOA(g)
        ELSE Lookup(g, qsName)

\* ns.middle without the test of this.ready
MiddleUngated(f, isReady, tld0, qsName, qsType) ==
    Route(f, tld0, qsName, qsType)

\* lines 341-386: from the call of ns.middle(tld, req) to the first await
Middle(f, isReady, tld0, qsName, qsType) ==
    IF ~isReady
    THEN ReturnRes(f, [ Message EXCEPT !.code = REFUSED ])
    ELSE Route(f, tld0, qsName, qsType)

\* lines 371-379, falling through to the native zone when there is no answer
AfterDirectFallsThrough(f, out) ==
    LET g == Logged(f, << [ Call("returned", f.loc.name, f.loc.type)
                            EXCEPT !.out = OutcomeKind(out) ] >>)
    IN  IF out.threw THEN Lookup(g, g.loc.name)
        ELSE LET h  == [ g EXCEPT !.loc.data = out.data ]
                 sd == SendData(out.data, h.loc.type)
             IN  IF HasData(out.data) /\ ~sd.threw
                 THEN ReturnRes(Logged(h, sd.calls), sd.res)
                 ELSE Lookup(h, h.loc.name)

\* lines 371-379: the direct call of the external resolver has come to `out`
AfterDirect(f, out) ==
    LET g == Logged(f, << [ Call("returned", f.loc.name, f.loc.type)
                            EXCEPT !.out = OutcomeKind(out) ] >>)
    IN  IF out.threw THEN ReturnSOA(g)
        ELSE LET h  == [ g EXCEPT !.loc.data = out.data ]
                 sd == SendData(out.data, h.loc.type)
             IN  IF HasData(out.data)
                 THEN IF sd.threw
                      THEN ReturnSOA(h)
                      ELSE ReturnRes(Logged(h, sd.calls), sd.res)
                 ELSE ReturnSOA(h)

\* lines 435-459 with a failing call clearing `data`
AfterReferralClearsData(f, out) ==
    LET g == Logged(f, << [ Call("returned", f.loc.name, f.loc.type)
                            EXCEPT !.out = OutcomeKind(out) ] >>)
    IN  IF out.threw THEN Scan([ g EXCEPT !.loc.data = Undefined ], g.loc.i + 1)
        ELSE Scan([ g EXCEPT !.loc.data = out.data ], g.loc.i + 1)

\* lines 435-459 with the loop left after the first call
AfterReferralStops(f, out) ==
    LET g == Logged(f, << [ Call("returned", f.loc.name, f.loc.type)
                            EXCEPT !.out = OutcomeKind(out) ] >>)
    IN  IF out.threw THEN Fallback(g)
        ELSE Fallback([ g EXCEPT !.loc.data = out.data ])

\* lines 435-459: a call of the external resolver made for the referral at
\* index i has come to `out`; the loop goes on
AfterReferral(f, out) ==
    LET g == Logged(f, << [ Call("returned", f.loc.name, f.loc.type)
                            EXCEPT !.out = OutcomeKind(out) ] >>)
    IN  IF out.threw THEN Scan(g, g.loc.i + 1)
        ELSE Scan([ g EXCEPT !.loc.data = out.data ], g.loc.i + 1)

---------------------------------------------------------------------------
(* Actions of a query *)

Tasks == DOMAIN pc

FrameOf(t) ==
    [ pc |-> pc[t], loc |-> loc[t], log |-> log[t], resp |-> resp[t],
      cache |-> cache ]

Install(t, f) ==
    /\ pc'    = [ pc   EXCEPT ![t] = f.pc ]
    /\ loc'   = [ loc  EXCEPT ![t] = f.loc ]
    /\ log'   = [ log  EXCEPT ![t] = f.log ]
    /\ resp'  = [ resp EXCEPT ![t] = f.resp ]
    /\ cache' = f.cache

\* the host calls ns.middle(tld, req) for a query (name, type)
Query(t) ==
    /\ pc[t] = "idle"
    /\ \E name \in QueryNames, type \in QueryTypes :
          /\ q' = [ q EXCEPT ![t] = [ tld |-> TldOf(name), name |-> name,
                                      type |-> type ] ]
          /\ gate' = [ gate EXCEPT ![t] = ready ]
          /\ Install(t, Middle(FrameOf(t), ready, TldOf(name), name, type))
    /\ UNCHANGED <<lifeVars, fnVars>>

\* ns.response(req) of the first resolveHNS resolves to res
Respond(t) ==
    /\ pc[t] = "lookup"
    /\ \E res \in NativeResponses(q[t].name, loc[t].type) :
          LET f == FrameOf(t)
          IN  Install(t, AfterLookup(Cached(f, f.loc.name, f.loc.type, res), res))
    /\ UNCHANGED <<lifeVars, fnVars, q, gate>>

\* ns.response of the NS lookup made for a DS query resolves to res
RespondRelookup(t) ==
    /\ pc[t] = "relookup"
    /\ \E res \in NativeResponses(loc[t].name, NS) :
          LET f == FrameOf(t)
          IN  Install(t, AfterRelookup(Cached(f, f.loc.name, NS, res), res))
    /\ UNCHANGED <<lifeVars, fnVars, q, gate>>

\* the call of the external resolver for an .eth name settles
DirectSettles(t) ==
    /\ pc[t] = "direct"
    /\ \E out \in EnsOutcomes(loc[t].name) :
          Install(t, AfterDirect(FrameOf(t), out))
    /\ UNCHANGED <<lifeVars, fnVars, q, gate>>

\* the call of the external resolver for a referral settles
ReferralSettles(t) ==
    /\ pc[t] = "referral"
    /\ \E out \in EnsOutcomes(loc[t].name) :
          Install(t, AfterReferral(FrameOf(t), out))
    /\ UNCHANGED <<lifeVars, fnVars, q, gate>>

---------------------------------------------------------------------------
(* Actions of the plugin's lifecycle *)

\* Plugin.open, to the await of ethereum.init() or to its end
Open ==
    /\ plug = "new"
    /\ IF full
       THEN /\ plug' = "opening"
            /\ inits' = [ inits EXCEPT !.open = @ + 1 ]
            /\ nInit' = nInit + 1
            /\ UNCHANGED listening
       ELSE /\ plug' = "open"
            /\ listening' = TRUE
            /\ UNCHANGED <<inits, nInit>>
    /\ UNCHANGED <<ready, closed, full, nReady, nFull, taskVars, fnVars>>

\* ethereum.init() awaited by open() resolves: lines 491-503
OpenInitDone ==
    /\ inits.open > 0
    /\ inits' = [ inits EXCEPT !.open = @ - 1 ]
    /\ ready' = TRUE
    /\ nReady' = nReady + 1
    /\ listening' = TRUE
    /\ plug' = "open"
    /\ UNCHANGED <<closed, full, nInit, nFull, taskVars, fnVars>>

\* node.chain emits 'full'; the listener, if registered, calls ethereum.init()
FullEvent ==
    /\ nFull < MaxFull
    /\ nFull' = nFull + 1
    /\ full' = TRUE
    /\ IF listening
       THEN /\ inits' = [ inits EXCEPT !.full = @ + 1 ]
            /\ nInit' = nInit + 1
       ELSE UNCHANGED <<inits, nInit>>
    /\ UNCHANGED <<ready, plug, closed, listening, nReady, taskVars, fnVars>>

\* ethereum.init() awaited by the 'full' listener resolves: lines 499-502
FullInitDone ==
    /\ inits.full > 0
    /\ inits' = [ inits EXCEPT !.full = @ - 1 ]
    /\ ready' = TRUE
    /\ nReady' = nReady + 1
    /\ UNCHANGED <<plug, closed, listening, full, nInit, nFull, taskVars, fnVars>>

\* Plugin.close
Close ==
    /\ plug = "open"
    /\ ~closed
    /\ closed' = TRUE
    /\ ready' = FALSE
    /\ UNCHANGED <<plug, listening, full, inits, nInit, nReady, nFull, taskVars, fnVars>>

---------------------------------------------------------------------------
(* Specification of one query against the plugin *)

NoArgs   == [ fn |-> "", name |-> <<>>, tld |-> <<>>, type |-> 0, data |-> Undefined ]
NoResult == [ done |-> FALSE, threw |-> FALSE, res |-> NoMessage, calls |-> <<>> ]

InitLife ==
    /\ ready = FALSE
    /\ plug = "new"
    /\ closed = FALSE
    /\ listening = FALSE
    /\ inits = [ open |-> 0, full |-> 0 ]
    /\ nInit = 0
    /\ nReady = 0
    /\ nFull = 0

InitTasks(T) ==
    /\ cache = {}
    /\ pc   = [ t \in T |-> "idle" ]
    /\ q    = [ t \in T |-> [ tld |-> <<>>, name |-> <<>>, type |-> 0 ] ]
    /\ gate = [ t \in T |-> FALSE ]
    /\ loc  = [ t \in T |-> NoLocals ]
    /\ log  = [ t \in T |-> <<>> ]
    /\ resp = [ t \in T |-> NoMessage ]

Init ==
    /\ InitLife
    /\ full \in BOOLEAN
    /\ InitTasks({1})
    /\ fnArgs = NoArgs
    /\ fnRes = NoResult

Lifecycle ==
    \/ Open
    \/ OpenInitDone
    \/ FullEvent
    \/ FullInitDone
    \/ Close

Next ==
    \/ Lifecycle
    \/ \E t \in Tasks : Query(t)
    \/ \E t \in Tasks : Respond(t)
    \/ \E t \in Tasks : RespondRelookup(t)
    \/ \E t \in Tasks : DirectSettles(t)
    \/ \E t \in Tasks : ReferralSettles(t)

Spec == Init /\ [][Next]_vars

---------------------------------------------------------------------------
(* Specifications of sendSOA and of sendData called on their own *)

\* every type of wire.types the plugin names
WireTypes == Range(TYPE_MAP_ALL) \cup { NS, CNAME, SOA, DS }

\* the (name, tld, type) ns.middle can hand to sendSOA
SOAArgs ==
    { [ NoArgs EXCEPT !.fn = "sendSOA", !.name = LowerName(n),
                      !.tld = LowerName(TldOf(n)), !.type = ty ] :
        n \in QueryNames, ty \in WireTypes }

\* the records of the payloads handed to sendData
PayloadRRs ==
    { RR(<<"www", "eth">>, A),
      RR(<<"eth">>, A),
      NSRecord(<<"www", "eth">>, <<"ns", "example">>),
      RR(<<"www", "eth">>, CNAME),
      RR(<<"www", "eth">>, DS),
      RR(<<"www", "eth">>, TXT) }

DataTypes == { A, NS, CNAME, DS, TXT }

DataArgs ==
    { [ NoArgs EXCEPT !.fn = "sendData", !.type = ty, !.data = Buffer(recs, bad) ] :
        recs \in SeqsUpTo(PayloadRRs, MaxRecs), bad \in BOOLEAN, ty \in DataTypes }

CallSendSOA ==
    /\ fnArgs.fn = "sendSOA"
    /\ ~fnRes.done
    /\ LET out == SendSOA(fnArgs.name, fnArgs.tld, fnArgs.type)
       IN  fnRes' = [ done |-> TRUE, threw |-> out.threw, res |-> out.res,
                      calls |-> out.calls ]
    /\ UNCHANGED <<fnArgs, lifeVars, taskVars>>

CallSendData ==
    /\ fnArgs.fn = "sendData"
    /\ ~fnRes.done
    /\ LET out == SendData(fnArgs.data, fnArgs.type)
       IN  fnRes' = [ done |-> TRUE, threw |-> out.threw, res |-> out.res,
                      calls |-> out.calls ]
    /\ UNCHANGED <<fnArgs, lifeVars, taskVars>>

InitSOA ==
    /\ InitLife
    /\ full = FALSE
    /\ InitTasks({1})
    /\ fnArgs \in SOAArgs
    /\ fnRes = NoResult

InitData ==
    /\ InitLife
    /\ full = FALSE
    /\ InitTasks({1})
    /\ fnArgs \in DataArgs
    /\ fnRes = NoResult

SpecSOA == InitSOA /\ [][CallSendSOA]_vars

SpecData == InitData /\ [][CallSendData]_vars

---------------------------------------------------------------------------
(* Specification of two queries sharing ns.cache.  The plugin is opened on  *)
(* a host that is already full; both queries are for names of the native   *)
(* zone, so that each of them goes through resolveHNS.                     *)

CacheNames == { << "com" >>, << "COM" >>, << "_synth" >> }

CacheTypes == { A, NS, DS }

\* the messages of the host with at most one authority record
CacheResponses(name, type) ==
    { r \in NativeResponses(name, type) : Len(r.authority) <= 1 }

\* ns.middle(tld, req), for a query of the native zone
QueryNative(t) ==
    /\ pc[t] = "idle"
    /\ \E name \in CacheNames, type \in CacheTypes :
          /\ q' = [ q EXCEPT ![t] = [ tld |-> TldOf(name), name |-> name,
                                      type |-> type ] ]
          /\ gate' = [ gate EXCEPT ![t] = ready ]
          /\ Install(t, Middle(FrameOf(t), ready, TldOf(name), name, type))
    /\ UNCHANGED <<lifeVars, fnVars>>

\* ns.response(req) of the first resolveHNS resolves
RespondNative(t) ==
    /\ pc[t] = "lookup"
    /\ \E res \in CacheResponses(q[t].name, loc[t].type) :
          LET f == FrameOf(t)
          IN  Install(t, AfterLookup(Cached(f, f.loc.name, f.loc.type, res), res))
    /\ UNCHANGED <<lifeVars, fnVars, q, gate>>

\* ns.response of the NS lookup made for a DS query resolves
RespondNativeRelookup(t) ==
    /\ pc[t] = "relookup"
    /\ \E res \in CacheResponses(loc[t].name, NS) :
          LET f == FrameOf(t)
          IN  Install(t, AfterRelookup(Cached(f, f.loc.name, NS, res), res))
    /\ UNCHANGED <<lifeVars, fnVars, q, gate>>

InitCache ==
    /\ InitLife
    /\ full = TRUE
    /\ InitTasks({1, 2})
    /\ fnArgs = NoArgs
    /\ fnRes = NoResult

NextCache ==
    \/ Open
    \/ OpenInitDone
    \/ \E t \in Tasks : QueryNative(t)
    \/ \E t \in Tasks : RespondNative(t)
    \/ \E t \in Tasks : RespondNativeRelookup(t)

SpecCache == InitCache /\ [][NextCache]_vars

---------------------------------------------------------------------------
(* Specification of ns.middle run to its end as a function of the query    *)
(* and of what the collaborators answer: `native` for the first call of    *)
(* ns.response, `relook` for the second, outs[k] for the k-th call of the   *)
(* external resolver.                                                      *)

\* ns.middle from frame f on, to its return or to the throw leaving it
RECURSIVE Drive(_, _, _, _)
Drive(f, native, relook, outs) ==
    IF f.pc = "lookup"
    THEN Drive(AfterLookup(Cached(f, f.loc.name, f.loc.type, native), native),
               native, relook, outs)
    ELSE IF f.pc = "relookup"
    THEN Drive(AfterRelookup(Cached(f, f.loc.name, NS, relook), relook),
               native, relook, outs)
    ELSE IF f.pc = "direct" /\ outs # <<>>
    THEN Drive(AfterDirect(f, Head(outs)), native, relook, Tail(outs))
    ELSE IF f.pc = "referral" /\ outs # <<>>
    THEN Drive(AfterReferral(f, Head(outs)), native, relook, Tail(outs))
    ELSE f

\* a call of ns.middle on a ready plugin with an empty cache
RunMiddle(a) ==
    Drive(Middle([ pc |-> "idle", loc |-> NoLocals, log |-> <<>>,
                   resp |-> NoMessage, cache |-> {} ],
                 TRUE, a.tld, a.name, a.type),
          a.native, a.relook, a.outs)

\* the sequences of exactly n elements of S
SeqsOf(S, n) == { s \in SeqsUpTo(S, n) : Len(s) = n }

RunArg(n, ty, nat, rel, outs) ==
    [ fn |-> "middle", name |-> n, tld |-> TldOf(n), type |-> ty, data |-> Undefined,
      native |-> nat, relook |-> rel, outs |-> outs ]

\* the answers of the host a run draws from: those whose authority section
\* holds delegations only
RunResponses(name, type) ==
    { r \in NativeResponses(name, type) :
        \A i \in 1..Len(r.authority) : r.authority[i].type = NS }

\* the outcomes of the external resolver a run draws from: failure, the
\* empty Buffer, one address record, and bytes that do not decode
RunOutcomes(name) ==
    { o \in EnsOutcomes(name) :
        \/ OutcomeKind(o) \in { "throw", "empty", "malformed" }
        \/ OutcomeKind(o) = "records" /\ o.data.recs[1].type = A }

\* the runs for the queries of `names`: every native response; a second
\* native response where the NS lookup is made (DS query of one label), and
\* MaxAuth outcomes of the external resolver where it can be called (names
\* of two labels or more)
RunArgs(names) ==
    UNION { UNION { IF ty = DS /\ Len(n) = 1
                    THEN { RunArg(n, ty, nat, rel, <<>>) :
                             rel \in RunResponses(LowerName(n), NS) }
                    ELSE IF Len(n) < 2
                    THEN { RunArg(n, ty, nat, NoMessage, <<>>) }
                    ELSE { RunArg(n, ty, nat, NoMessage, outs) :
                             outs \in SeqsOf(RunOutcomes(LowerName(n)), MaxAuth) }
                    : nat \in RunResponses(n, ty) }
            : n \in names, ty \in QueryTypes }

CallMiddle ==
    /\ fnArgs.fn = "middle"
    /\ ~fnRes.done
    /\ LET f == RunMiddle(fnArgs)
       IN  fnRes' = [ done |-> TRUE, threw |-> f.pc = "threw", res |-> f.resp,
                      calls |-> f.log ]
    /\ UNCHANGED <<fnArgs, lifeVars, taskVars>>

InitRun ==
    /\ InitLife
    /\ full = FALSE
    /\ InitTasks({1})
    /\ fnArgs \in RunArgs(QueryNames)
    /\ fnRes = NoResult

SpecRun == InitRun /\ [][CallMiddle]_vars

---------------------------------------------------------------------------
(* Vocabulary of the properties *)

Finished(t) == pc[t] \in { "done", "threw" }

\* the query of task t as ns.middle sees it after lowercasing
QName(t) == LowerName(q[t].name)
QTld(t)  == LowerName(q[t].tld)
QType(t) == q[t].type

\* the collaborator operations task t has called
Ops(t) == { log[t][i].op : i \in 1..Len(log[t]) }

AdapterOps == { "resolveDnsFromEns", "resolveDnsFromAbstractEns" }
CacheOps   == { "cache.get", "cache.set" }
SignerOps  == { "signRRSet", "toSOA" }

\* the outcomes of the adapter calls of task t that have settled, in order
Settled(t) ==
    LET IsReturn(c) == c.op = "returned"
        rets == SelectSeq(log[t], IsReturn)
    IN  [ i \in 1..Len(rets) |-> rets[i].out ]

TypesOf(section) == [ i \in 1..Len(section) |-> section[i].type ]

\* the synthesized denial for the query of task t
DenialFor(t) == SendSOA(QName(t), QTld(t), QType(t)).res

\* a message of the shape NSEC + SOA, each followed by its signature
DenialShaped(m) ==
    /\ m.code = NOERROR
    /\ m.aa = TRUE
    /\ m.answer = <<>>
    /\ TypesOf(m.authority) = << NSEC, RRSIG, SOA, RRSIG >>

\* task t passed the readiness gate and was routed to the native zone
NativeRouted(t) ==
    /\ pc[t] # "idle"
    /\ gate[t]
    /\ QTld(t) \notin { << "eth" >>, << "_eth" >> }

\* task t passed the readiness gate with the direct-extension tld
DirectRouted(t) ==
    /\ pc[t] # "idle"
    /\ gate[t]
    /\ QTld(t) = << "eth" >>

\* an authority section holding an NS record whose target ends in one of `endings`
RefersTo(authority, endings) ==
    \E i \in 1..Len(authority) :
        /\ authority[i].type = NS
        /\ authority[i].ns # <<>>
        /\ authority[i].ns[Len(authority[i].ns)] \in endings

\* task t has scanned an authority section with a recognized referral
ScannedReferral(t) ==
    /\ loc[t].res # NoMessage
    /\ RefersTo(loc[t].res.authority, { "eth", "_eth" })

\* the outcome of the last adapter call of task t that did not throw
Retained(t) ==
    LET NotThrow(k) == k # "throw"
        kept == SelectSeq(Settled(t), NotThrow)
    IN  IF kept = <<>> THEN "none" ELSE kept[Len(kept)]

\* the records of a payload that belong in the answer section for a queried
\* type, and those that belong in the authority section, in payload order
AnswerPart(recs, type) ==
    LET ToAnswer(r) == r.type # NS /\ (r.type = type \/ r.type = CNAME)
    IN  SelectSeq(recs, ToAnswer)

AuthorityPart(recs, type) ==
    LET ToAuthority(r) == r.type = NS \/ (r.type # type /\ r.type # CNAME)
    IN  SelectSeq(recs, ToAuthority)

\* section s is the records `part` followed only by signatures of the host
PartThenSignatures(s, part) ==
    /\ Len(s) >= Len(part)
    /\ SubSeq(s, 1, Len(part)) = part
    /\ \A i \in (Len(part) + 1)..Len(s) : s[i].type = RRSIG /\ s[i].covered # 0

\* the types a type bitmap (RFC 4034, section 4.1.2) asserts
RECURSIVE DecodeBlocks(_, _)
DecodeBlocks(bm, pos) ==
    IF pos + 1 > Len(bm) THEN {}
    ELSE LET w   == bm[pos]
             len == bm[pos + 1]
         IN  { u \in (w * 256)..(w * 256 + len * 8 - 1) :
                      (bm[pos + 2 + ((u % 256) \div 8)] \div Pow2(7 - (u % 8))) % 2 = 1 }
             \cup DecodeBlocks(bm, pos + 2 + len)

BitmapTypes(bm) == DecodeBlocks(bm, 1)

---------------------------------------------------------------------------
(* C1 - C10 *)

\* C1: a query that arrives while this.ready is false is answered at once
\* with code REFUSED, and its handling calls none of the collaborators: no
\* cache get/set, no ns.response, no signer call, no external resolver call.
C1_RefusedWhenNotReady ==
    \A t \in Tasks :
        (pc[t] # "idle" /\ ~gate[t]) =>
            /\ pc[t] = "done"
            /\ resp[t].code = REFUSED
            /\ log[t] = <<>>

C1_Witness ==
    \E t \in Tasks :
        /\ pc[t] = "done"
        /\ ~gate[t]
        /\ q[t].name = << "www", "com" >>
        /\ resp[t].code = REFUSED

\* C2: referral suppression.  A query routed to the native zone whose
\* scanned authority section holds an NS record with a target ending in
\* 'eth' or '_eth', and for which no call of the external resolver returned
\* data, is answered with the synthesized denial (NSEC + SOA, aa = true),
\* never with the native response that holds the referral.
C2_ReferralSuppressed ==
    \A t \in Tasks :
        ( /\ Finished(t)
          /\ NativeRouted(t)
          /\ ScannedReferral(t)
          /\ \A i \in 1..Len(Settled(t)) :
                Settled(t)[i] \in { "throw", "null", "empty" } ) =>
            /\ pc[t] = "done"
            /\ resp[t] = DenialFor(t)
            /\ DenialShaped(resp[t])
            /\ resp[t] # loc[t].res
            /\ resp[t] # loc[t].originalRes

C2_Witness ==
    \E t \in Tasks :
        /\ pc[t] = "done"
        /\ NativeRouted(t)
        /\ RefersTo(loc[t].res.authority, { "eth" })
        /\ Settled(t) = << "empty" >>
        /\ DenialShaped(resp[t])

\* C3: a query accepted at the readiness gate whose tld is 'eth.' and whose
\* name has fewer than 2 labels is answered with the synthesized denial for
\* (name, tld, type), and the external resolver is never called for it.
C3_MinimalDirectDenied ==
    \A t \in Tasks :
        (DirectRouted(t) /\ Len(QName(t)) < 2) =>
            /\ pc[t] = "done"
            /\ resp[t] = DenialFor(t)
            /\ DenialShaped(resp[t])
            /\ Ops(t) \cap AdapterOps = {}

C3_Witness ==
    \E t \in Tasks :
        /\ pc[t] = "done"
        /\ gate[t]
        /\ q[t].tld = << "ETH" >>
        /\ q[t].name = << "ETH" >>
        /\ DenialShaped(resp[t])
        /\ Ops(t) \cap AdapterOps = {}

\* C4 (as amended): a query accepted at the gate whose tld is 'eth.' and
\* whose name has at least 2 labels makes one call of the external resolver.
\* If the call returns nonempty data that decodes, the response is what
\* sendData assembles from it; if the call fails, returns no or empty data,
\* or returns data that does not decode, the response is the synthesized
\* denial.  In no case is the native responder or the cache touched.
C4_DirectNoFallThrough ==
    \A t \in Tasks :
        (DirectRouted(t) /\ Len(QName(t)) >= 2) =>
            /\ Ops(t) \cap (CacheOps \cup { "ns.response" }) = {}
            /\ pc[t] \in { "direct", "done" }
            /\ pc[t] = "done" =>
                  /\ Len(Settled(t)) = 1
                  /\ IF Settled(t)[1] = "records"
                     THEN /\ resp[t] = SendData(loc[t].data, QType(t)).res
                          /\ PartThenSignatures(resp[t].answer,
                                AnswerPart(loc[t].data.recs, QType(t)))
                          /\ PartThenSignatures(resp[t].authority,
                                AuthorityPart(loc[t].data.recs, QType(t)))
                     ELSE /\ resp[t] = DenialFor(t)
                          /\ DenialShaped(resp[t])

C4_Witness ==
    \E t \in Tasks :
        /\ pc[t] = "done"
        /\ DirectRouted(t)
        /\ Len(QName(t)) >= 2
        /\ Settled(t) = << "malformed" >>
        /\ DenialShaped(resp[t])

\* C4 as stated: whenever the call succeeds with nonempty data the response
\* is the assembler's output; on failure or empty data it is the denial.
C4_Original ==
    \A t \in Tasks :
        (DirectRouted(t) /\ Len(QName(t)) >= 2 /\ pc[t] = "done") =>
            /\ Ops(t) \cap (CacheOps \cup { "ns.response" }) = {}
            /\ Settled(t)[1] \in { "records", "malformed" } =>
                  /\ resp[t] = SendData(loc[t].data, QType(t)).res
                  /\ ~DenialShaped(resp[t])
            /\ Settled(t)[1] \in { "throw", "null", "empty" } =>
                  resp[t] = DenialFor(t)

\* C5: a query routed to the native zone, in whose scanned authority section
\* a referral is recognized and whose name has fewer than 2 labels, is
\* answered with the synthesized denial, without any call of the external
\* resolver.
C5_MinimalReferralDenied ==
    \A t \in Tasks :
        (NativeRouted(t) /\ ScannedReferral(t) /\ Len(QName(t)) < 2) =>
            /\ pc[t] = "done"
            /\ resp[t] = DenialFor(t)
            /\ DenialShaped(resp[t])
            /\ Ops(t) \cap AdapterOps = {}

C5_Witness ==
    \E t \in Tasks :
        /\ pc[t] = "done"
        /\ NativeRouted(t)
        /\ QName(t) = << "com" >>
        /\ QType(t) = A
        /\ RefersTo(loc[t].res.authority, { "_eth" })
        /\ DenialShaped(resp[t])

\* the DS scenario: type DS, one label, a DS lookup without authority records
\* and an NS lookup for the same name that holds a referral to an '_eth' target
DSScenario(t) ==
    /\ NativeRouted(t)
    /\ Finished(t)
    /\ QType(t) = DS
    /\ Len(QName(t)) = 1
    /\ loc[t].originalRes # NoMessage
    /\ loc[t].originalRes.authority = <<>>
    /\ loc[t].res # NoMessage
    /\ loc[t].res.question = << [ name |-> QName(t), type |-> NS ] >>
    /\ RefersTo(loc[t].res.authority, { "_eth" })

\* C6 (as amended): in the DS scenario the response is the synthesized
\* denial for (name, tld, DS).  The name has fewer than 2 labels, so the
\* external resolver is not called; the response is neither an assembled
\* external answer nor the DS-typed native result.
C6_DSBoundaryDenied ==
    \A t \in Tasks :
        DSScenario(t) =>
            /\ pc[t] = "done"
            /\ resp[t] = DenialFor(t)
            /\ DenialShaped(resp[t])
            /\ resp[t] # loc[t].originalRes
            /\ Ops(t) \cap AdapterOps = {}
            /\ loc[t].data = Undefined

C6_Witness ==
    \E t \in Tasks :
        /\ DSScenario(t)
        /\ q[t].name = << "com" >>
        /\ DenialShaped(resp[t])

\* C6 as stated: in the DS scenario, with every call of the external
\* resolver returning records, the response is the assembled external answer.
C6_Original ==
    \A t \in Tasks :
        ( /\ DSScenario(t)
          /\ \A i \in 1..Len(Settled(t)) : Settled(t)[i] = "records" ) =>
            /\ pc[t] = "done"
            /\ HasData(loc[t].data)
            /\ resp[t] = SendData(loc[t].data, DS).res

\* C7: in every message sendSOA(name, tld, type) builds, the bitmap of the
\* NSEC record asserts, when name # tld, every type of TYPE_MAP_ALL but the
\* queried one and not the queried one; when name = tld, the bitmap is
\* TYPE_MAP_EMPTY, which asserts NSEC and RRSIG only.
C7_DenialBitmap ==
    (fnRes.done /\ fnArgs.fn = "sendSOA") =>
        LET nsec  == fnRes.res.authority[1]
            types == BitmapTypes(nsec.typeBitmap)
        IN  /\ nsec.type = NSEC
            /\ nsec.name = fnArgs.name
            /\ IF fnArgs.name # fnArgs.tld
               THEN /\ fnArgs.type \notin types
                    /\ types = Range(TYPE_MAP_ALL) \ { fnArgs.type }
               ELSE /\ nsec.typeBitmap = TYPE_MAP_EMPTY
                    /\ types = { NSEC, RRSIG }

C7_Witness ==
    /\ fnRes.done
    /\ fnArgs.fn = "sendSOA"
    /\ fnArgs.name = << "www", "com" >>
    /\ fnArgs.tld = << "com" >>
    /\ fnArgs.type = AAAA
    /\ A \in BitmapTypes(fnRes.res.authority[1].typeBitmap)
    /\ AAAA \notin BitmapTypes(fnRes.res.authority[1].typeBitmap)

\* the payload of a direct call of sendData is referral-shaped for the
\* queried type: no record belongs in the answer section, some in authority
ReferralShaped(recs, type) ==
    /\ AnswerPart(recs, type) = <<>>
    /\ AuthorityPart(recs, type) # <<>>

\* the calls of signRRSet on the authority section under DS
DSRequests(calls) ==
    { i \in 1..Len(calls) :
        calls[i].op = "signRRSet" /\ calls[i].sec = "authority" /\ calls[i].type = DS }

\* C8: the message sendData(data, type) returns has aa = false exactly when,
\* after partitioning, the answer section is empty and the authority section
\* is not, and exactly then the authority section is handed to signRRSet
\* under DS (once, as partitioned); otherwise aa = true and no such call.
C8_ReferralAnswerFlag ==
    (fnRes.done /\ fnArgs.fn = "sendData" /\ ~fnRes.threw) =>
        LET shaped == ReferralShaped(fnArgs.data.recs, fnArgs.type)
            reqs   == DSRequests(fnRes.calls)
        IN  /\ fnRes.res.aa = ~shaped
            /\ shaped => /\ Cardinality(reqs) = 1
                         /\ \A i \in reqs :
                               fnRes.calls[i].rrs =
                                  TypesOf(AuthorityPart(fnArgs.data.recs, fnArgs.type))
            /\ ~shaped => reqs = {}

C8_Witness ==
    /\ fnRes.done
    /\ fnArgs.fn = "sendData"
    /\ fnArgs.type = A
    /\ TypesOf(fnArgs.data.recs) = << NS, DS >>
    /\ fnRes.res.aa = FALSE
    /\ DSRequests(fnRes.calls) # {}

\* C9: sendData(data, type) puts every record of the payload in exactly one
\* section and keeps the payload order in each: NS records in authority
\* (also when NS is queried), records of the queried type and CNAME records
\* in answer, every other record in authority.  What follows them in a
\* section are the signatures appended by the host signer.
C9_Partition ==
    (fnRes.done /\ fnArgs.fn = "sendData" /\ ~fnRes.threw) =>
        LET recs   == fnArgs.data.recs
            answer == AnswerPart(recs, fnArgs.type)
            auth   == AuthorityPart(recs, fnArgs.type)
        IN  /\ Len(answer) + Len(auth) = Len(recs)
            /\ PartThenSignatures(fnRes.res.answer, answer)
            /\ PartThenSignatures(fnRes.res.authority, auth)
            /\ \A i \in 1..Len(fnRes.res.answer) : fnRes.res.answer[i].type # NS

C9_Witness ==
    /\ fnRes.done
    /\ fnArgs.fn = "sendData"
    /\ fnArgs.type = NS
    /\ TypesOf(fnArgs.data.recs) = << NS, CNAME, A >>
    /\ TypesOf(fnRes.res.answer) = << CNAME, RRSIG >>
    /\ TypesOf(fnRes.res.authority) = << NS, A >>

\* C10 (as amended): when the value ns.middle retains from the external
\* resolver (that of the direct call, or of the last referral call that did
\* not fail) is nonempty data, then: if it decodes, the response is what
\* sendData assembles from it, with aa = true unless the assembled answer is
\* empty and the authority is not, where aa = false; if it does not decode,
\* the direct path answers with the synthesized denial and the referral
\* path ends with the decoding error instead of a response.
C10_DataIsAssembled ==
    \A t \in Tasks :
        (Finished(t) /\ gate[t] /\ Retained(t) \in { "records", "malformed" }) =>
            /\ HasData(loc[t].data)
            /\ IF Retained(t) = "records"
               THEN /\ pc[t] = "done"
                    /\ resp[t] = SendData(loc[t].data, QType(t)).res
                    /\ PartThenSignatures(resp[t].answer,
                          AnswerPart(loc[t].data.recs, QType(t)))
                    /\ PartThenSignatures(resp[t].authority,
                          AuthorityPart(loc[t].data.recs, QType(t)))
                    /\ resp[t].aa = ~ReferralShaped(loc[t].data.recs, QType(t))
               ELSE IF DirectRouted(t)
                    THEN pc[t] = "done" /\ resp[t] = DenialFor(t)
                    ELSE pc[t] = "threw"

C10_Witness ==
    \E t \in Tasks :
        /\ pc[t] = "done"
        /\ NativeRouted(t)
        /\ Settled(t) = << "records", "throw" >>
        /\ TypesOf(loc[t].data.recs) = << NS >>
        /\ resp[t].aa = FALSE
        /\ TypesOf(resp[t].authority) = << NS >>

\* C10 as stated: whenever a call of the external resolver made for the
\* query returned nonempty data, the response is the assembler's result and
\* has aa = true.
C10_Original ==
    \A t \in Tasks :
        ( /\ pc[t] = "done"
          /\ \E i \in 1..Len(Settled(t)) : Settled(t)[i] \in { "records", "malformed" } ) =>
            /\ resp[t] = SendData(loc[t].data, QType(t)).res
            /\ resp[t].aa = TRUE


---------------------------------------------------------------------------
(* C11 - C20 *)

\* the calls of resolveHNS of task t that have returned: key and result
Lookups(t) ==
    (IF loc[t].originalRes # NoMessage
     THEN { [ name |-> loc[t].name, type |-> loc[t].type,
              res |-> loc[t].originalRes ] }
     ELSE {})
    \cup
    (IF loc[t].type = DS /\ Len(loc[t].name) = 1 /\ loc[t].res # NoMessage
     THEN { [ name |-> loc[t].name, type |-> NS, res |-> loc[t].res ] }
     ELSE {})

\* the calls task t has made to the host for `name` and `type`
CallsFor(t, op, name, type) ==
    { i \in 1..Len(log[t]) :
        log[t][i].op = op /\ LowerName(log[t][i].name) = name /\ log[t][i].type = type }

\* C11: two calls of resolveHNS with the same (name, type), the second
\* starting after the first has returned.  Under the tld "_synth." the
\* first call has invoked ns.response and written nothing to the cache, and
\* the second call invokes ns.response again.  Under any other tld the
\* first call has invoked ns.response and written the cache entry, and the
\* second call returns that cached response without calling ns.response.
C11_ConsecutiveLookups ==
    [][ \A t \in Tasks : \A u \in Tasks \ {t} :
          (/\ pc[t] = "idle"
           /\ pc'[t] # "idle"
           /\ gate'[t]
           /\ pc[u] = "done"
           /\ \E l \in Lookups(u) :
                 l.name = loc'[t].name /\ l.type = loc'[t].type)
          =>
          LET name == loc'[t].name
              type == loc'[t].type
              l    == CHOOSE l \in Lookups(u) : l.name = name /\ l.type = type
          IN  /\ Cardinality(CallsFor(u, "ns.response", name, type)) = 1
              /\ log'[t][1] = Call("cache.get", name, type)
              /\ IF loc'[t].tld = << "_synth" >>
                 THEN /\ CallsFor(u, "cache.set", name, type) = {}
                      /\ CacheGet(cache', name, type) = {}
                      /\ pc'[t] = "lookup"
                      /\ Len(log'[t]) = 2
                      /\ log'[t][2].op = "ns.response"
                 ELSE /\ Cardinality(CallsFor(u, "cache.set", name, type)) = 1
                      /\ pc'[t] # "lookup"
                      /\ loc'[t].originalRes = l.res
                      /\ \A i \in 1..Len(log'[t]) : log'[t][i].op # "ns.response"
      ]_vars

C11_Witness ==
    /\ pc[1] = "done"
    /\ pc[2] = "done"
    /\ gate[1]
    /\ gate[2]
    /\ loc[1].name = << "com" >>
    /\ loc[2].name = << "com" >>
    /\ loc[1].type = A
    /\ loc[2].type = A
    /\ "ns.response" \in Ops(1)
    /\ "ns.response" \notin Ops(2)
    /\ loc[2].originalRes = loc[1].originalRes
    /\ resp[2] = loc[1].originalRes

\* the outcomes of the external resolver with every failure replaced by a
\* successful call returning the empty Buffer
EmptyForThrow(outs) ==
    [ i \in 1..Len(outs) |->
        IF outs[i].threw THEN Returns(Buffer(<<>>, FALSE)) ELSE outs[i] ]

\* the outcomes with every failure replaced by a successful call returning
\* the data retained before it: that of the nearest earlier call that did not
\* fail, the empty Buffer if there is none
RECURSIVE KeptForThrow(_)
KeptForThrow(outs) ==
    IF outs = <<>> THEN <<>>
    ELSE LET n    == Len(outs)
             init == KeptForThrow(SubSeq(outs, 1, n - 1))
         IN  Append(init,
                    IF ~outs[n].threw THEN outs[n]
                    ELSE IF n = 1 THEN Returns(Buffer(<<>>, FALSE))
                    ELSE init[n - 1])

\* the outcomes of the calls of the external resolver the run has made
Consumed ==
    SubSeq(fnArgs.outs, 1, Len(SelectSeq(fnRes.calls, LAMBDA c : c.op = "returned")))

\* a call that failed after an earlier call of the run had returned data
FailsAfterData(outs) ==
    \E i \in 1..Len(outs), j \in 1..Len(outs) :
        i < j /\ HasData(outs[i].data) /\ outs[j].threw

C13_Original ==
    \A t \in Tasks :
        (Finished(t) /\ gate[t] /\ "malformed" \in Range(Settled(t))) =>
            /\ pc[t] = "done"
            /\ resp[t] = DenialFor(t)

\* the referral path ends with the decoding error
C13_Witness ==
    \E t \in Tasks :
        /\ pc[t] = "threw"
        /\ NativeRouted(t)
        /\ Settled(t) = << "malformed" >>
        /\ resp[t] = NoMessage

\* C14 (as claimed): in every interleaving of open, close, 'full' events
\* and queries, a message ns.middle returns at a moment when this.ready is
\* false has code REFUSED, and the query it answers has written nothing to
\* the cache.
C14_Original ==
    [][ \A t \in Tasks :
          (~Finished(t) /\ pc'[t] = "done" /\ ~ready') =>
              /\ resp'[t].code = REFUSED
              /\ \A i \in 1..Len(log'[t]) : log'[t][i].op # "cache.set"
      ]_vars

\* C15: a query accepted at the readiness gate whose tld is "_eth.",
\* whatever its name, its number of labels and its type, is answered with
\* the synthesized denial for (name, tld, type), and its handling calls
\* neither the external resolver, nor ns.response, nor the cache.
C15_PlaceholderDenied ==
    \A t \in Tasks :
        (pc[t] # "idle" /\ gate[t] /\ QTld(t) = << "_eth" >>) =>
            /\ pc[t] = "done"
            /\ resp[t] = DenialFor(t)
            /\ DenialShaped(resp[t])
            /\ Ops(t) \cap (AdapterOps \cup CacheOps \cup { "ns.response" }) = {}

C15_Witness ==
    \E t \in Tasks :
        /\ pc[t] = "done"
        /\ gate[t]
        /\ QName(t) = << "www", "_eth" >>
        /\ QType(t) = DS
        /\ resp[t] = DenialFor(t)
        /\ Ops(t) = SignerOps

\* C16: when the native result ns.middle examines at line 405 (the result
\* of the lookup of the query; for a DS query of one label, the result of
\* the NS lookup made for it) has an empty authority section, ns.middle
\* returns that very message, its answer, authority, aa and code as the
\* host gave them, and calls neither the external resolver nor the signer.
C16_Bypass ==
    \A t \in Tasks :
        (NativeRouted(t) /\ loc[t].res # NoMessage /\ loc[t].res.authority = <<>>) =>
            /\ pc[t] = "done"
            /\ resp[t] = loc[t].res
            /\ resp[t] \in NativeResponses(loc[t].res.question[1].name,
                                           loc[t].res.question[1].type)
            /\ Ops(t) \cap (AdapterOps \cup SignerOps) = {}
            /\ "returned" \notin Ops(t)

C16_Witness ==
    \E t \in Tasks :
        /\ pc[t] = "done"
        /\ NativeRouted(t)
        /\ QName(t) = << "www", "com" >>
        /\ loc[t].res.authority = <<>>
        /\ loc[t].res.answer # <<>>
        /\ resp[t] = loc[t].res
        /\ resp[t].aa = TRUE
        /\ Ops(t) = { "cache.get", "ns.response", "cache.set" }

\* C17 (as claimed): when no NS record of the authority section ns.middle
\* scans has a target ending in "eth" or "_eth" (an authority section with
\* no NS record, or with no record at all, included), ns.middle returns the
\* native result unmodified; for a DS query of one label that is the result
\* of the original DS lookup, never the result of the NS lookup.
C17_Original ==
    \A t \in Tasks :
        (/\ NativeRouted(t)
         /\ loc[t].res # NoMessage
         /\ ~RefersTo(loc[t].res.authority, { "eth", "_eth" })) =>
            /\ pc[t] = "done"
            /\ resp[t] = loc[t].originalRes
            /\ resp[t].question = << [ name |-> q[t].name, type |-> q[t].type ] >>

\* a DS query of one label answered with the result of the NS lookup
C17_Witness ==
    \E t \in Tasks :
        /\ pc[t] = "done"
        /\ NativeRouted(t)
        /\ QName(t) = << "com" >>
        /\ QType(t) = DS
        /\ loc[t].res.authority = <<>>
        /\ resp[t] = loc[t].res
        /\ resp[t] # loc[t].originalRes
        /\ resp[t].question[1].type = NS

\* the NS records of an authority section with a recognized target, in order
Matching(authority) ==
    SelectSeq(authority, LAMBDA rr : rr.type = NS /\ Ending(rr.ns) \in { "eth", "_eth" })

\* the calls of the external resolver among `calls`, in order
AdapterCalls(calls) == SelectSeq(calls, LAMBDA c : c.op \in AdapterOps)

\* the run is a query of two labels or more that reaches the referral loop
\* with at least two recognized referrals
SeveralReferrals ==
    /\ fnArgs.fn = "middle"
    /\ fnRes.done
    /\ LowerName(fnArgs.tld) \notin { << "eth" >>, << "_eth" >> }
    /\ Len(fnArgs.name) >= 2
    /\ Len(Matching(fnArgs.native.authority)) >= 2

\* what ns.middle answers when `out` decides: the denial for a failure or
\* no data, else what sendData makes of the payload
DecidedBy(out) ==
    LET name == LowerName(fnArgs.name)
        tld  == LowerName(fnArgs.tld)
        sd   == SendData(out.data, fnArgs.type)
    IN  IF out.threw \/ ~HasData(out.data)
        THEN [ threw |-> FALSE, res |-> SendSOA(name, tld, fnArgs.type).res ]
        ELSE [ threw |-> sd.threw, res |-> sd.res ]

\* the external resolver was called once per recognized referral, in the
\* order of the authority section, with the target of the record
CalledPerReferral ==
    LET m     == Matching(fnArgs.native.authority)
        calls == AdapterCalls(fnRes.calls)
    IN  /\ Len(calls) = Len(m)
        /\ \A i \in 1..Len(m) :
              calls[i] = AdapterCall(IF Ending(m[i].ns) = "eth"
                                     THEN "resolveDnsFromEns"
                                     ELSE "resolveDnsFromAbstractEns",
                                     LowerName(fnArgs.name), fnArgs.type, m[i].ns)

C19_Original ==
    /\ nInit <= 1
    /\ nReady <= 1

\* open() on a full host has initialized and set the flag; a later 'full'
\* event has initialized and set it again
C19_Witness ==
    /\ plug = "open"
    /\ listening
    /\ nFull = 1
    /\ nInit = 2
    /\ nReady = 2
    /\ ready

\* C20 (as claimed): once close() has run this.ready is false in every
\* later state, whatever initialization was in flight and whatever 'full'
\* event comes after.
C20_Original == closed => ~ready

\* the flag is true again after close(), with no initialization in flight
C20_Witness ==
    /\ closed
    /\ ready
    /\ inits = [ open |-> 0, full |-> 0 ]
    /\ \E t \in Tasks : pc[t] = "done" /\ gate[t] /\ resp[t].code = NOERROR

---------------------------------------------------------------------------
(* C21 - C24 *)

\* message m answers a request for (name, type), names compared as DNS
\* names are, without regard to case
AnswersRequest(m, name, type) ==
    /\ m \in CacheResponses(m.question[1].name, m.question[1].type)
    /\ LowerName(m.question[1].name) = name
    /\ m.question[1].type = type

\* task t went through resolveHNS for its own (name, type), missed the cache
\* and was answered by ns.response
Missed(t) ==
    /\ gate[t]
    /\ loc[t].originalRes # NoMessage
    /\ CallsFor(t, "ns.response", loc[t].name, loc[t].type) # {}

\* C21: queries handled concurrently that miss the cache each call
\* ns.response and, unless the tld is "_synth.", each write the cache when
\* their call returns, the later write replacing the earlier one.  In every
\* interleaving each call of resolveHNS returns the response ns.response
\* gave to its own request, and the cache holds under the key of a finished
\* lookup a response of ns.response for that same (name, type).
C21_MissThenFill ==
    [][ /\ \A t \in Tasks :
              (pc[t] = "lookup" /\ pc'[t] # "lookup") =>
                  /\ AnswersRequest(loc'[t].originalRes, loc[t].name, loc[t].type)
                  /\ loc'[t].originalRes.question[1].name = q[t].name
                  /\ IF loc[t].tld # << "_synth" >>
                     THEN CacheGet(cache', loc[t].name, loc[t].type) =
                              { [ name |-> loc[t].name, type |-> loc[t].type,
                                  res |-> loc'[t].originalRes ] }
                     ELSE CacheGet(cache', loc[t].name, loc[t].type) = {}
        /\ \A t \in Tasks :
              (pc[t] = "relookup" /\ pc'[t] # "relookup") =>
                  /\ AnswersRequest(loc'[t].res, loc[t].name, NS)
                  /\ IF loc[t].tld # << "_synth" >>
                     THEN CacheGet(cache', loc[t].name, NS) =
                              { [ name |-> loc[t].name, type |-> NS,
                                  res |-> loc'[t].res ] }
                     ELSE CacheGet(cache', loc[t].name, NS) = {}
        /\ \A t \in Tasks : \A l \in Lookups(t)' :
              loc'[t].tld # << "_synth" >> =>
                  \E e \in CacheGet(cache', l.name, l.type) :
                      /\ AnswersRequest(e.res, e.name, e.type)
                      /\ \E u \in Tasks : e \in Lookups(u)'
      ]_vars

\* both queries for com. A missed and were answered differently; the cache
\* holds the answer given to the second, the first returned its own
C21_Witness ==
    /\ pc[1] = "done"
    /\ pc[2] = "done"
    /\ Missed(1)
    /\ Missed(2)
    /\ loc[1].name = << "com" >>
    /\ loc[2].name = << "com" >>
    /\ loc[1].type = A
    /\ loc[2].type = A
    /\ loc[1].originalRes # loc[2].originalRes
    /\ resp[1] = loc[1].originalRes
    /\ resp[2] = loc[2].originalRes
    /\ CacheGet(cache, << "com" >>, A) =
           { [ name |-> << "com" >>, type |-> A, res |-> loc[2].originalRes ] }

\* the i-th call of task t is a cache write that follows the call of
\* ns.response for the same name and type
WriteFollowsRequest(t, i) ==
    /\ i > 1
    /\ log[t][i - 1].op = "ns.response"
    /\ LowerName(log[t][i - 1].name) = log[t][i].name
    /\ log[t][i - 1].type = log[t][i].type

\* C22: every entry of the cache under a key (name, type) is an answer of
\* ns.response to a request whose question has that name (names compared
\* as DNS names are, without regard to case) and that type, and every cache
\* write of a query comes right after its call of ns.response for the name
\* and type it writes under.  For a DS query of one label the first lookup
\* is requested and stored under (name, DS), the NS lookup under (name, NS).
C22_CacheKeys ==
    /\ \A e \in cache : AnswersRequest(e.res, e.name, e.type)
    /\ \A t \in Tasks : \A i \in 1..Len(log[t]) :
          log[t][i].op = "cache.set" =>
              /\ WriteFollowsRequest(t, i)
              /\ log[t][i].name = loc[t].name
              /\ log[t][i].type \in { loc[t].type, NS }
    /\ \A t \in Tasks :
          (pc[t] = "done" /\ gate[t] /\ loc[t].type = DS /\ Len(loc[t].name) = 1
             /\ loc[t].tld # << "_synth" >>) =>
              /\ \E e \in CacheGet(cache, loc[t].name, DS) : e.res.question[1].type = DS
              /\ \E e \in CacheGet(cache, loc[t].name, NS) : e.res.question[1].type = NS

\* a DS query of one label has made both lookups and written both entries
C22_Witness ==
    \E t \in Tasks :
        /\ pc[t] = "done"
        /\ q[t].name = << "COM" >>
        /\ loc[t].type = DS
        /\ loc[t].originalRes.question[1] = [ name |-> << "COM" >>, type |-> DS ]
        /\ loc[t].res.question[1] = [ name |-> << "com" >>, type |-> NS ]
        /\ [ i \in 1..Len(log[t]) |-> << log[t][i].op, log[t][i].type >> ] =
              << << "cache.get", DS >>, << "ns.response", DS >>, << "cache.set", DS >>,
                 << "cache.get", NS >>, << "ns.response", NS >>, << "cache.set", NS >> >>
        /\ CacheGet(cache, << "com" >>, DS) =
              { [ name |-> << "com" >>, type |-> DS, res |-> loc[t].originalRes ] }
        /\ CacheGet(cache, << "com" >>, NS) =
              { [ name |-> << "com" >>, type |-> NS, res |-> loc[t].res ] }

\* C22 as stated: the question of every entry has the very name and type
\* of its key
C22_Original ==
    \A e \in cache :
        /\ e.res.question[1].name = e.name
        /\ e.res.question[1].type = e.type

\* the string "\\000." + name as labels
AfterName(name) == << "\\000" >> \o (IF name = <<>> THEN << "" >> ELSE name)

\* C23: the message of sendSOA has an empty answer and aa set, and its
\* authority is built in this order: the NSEC record (owner the name, next
\* domain "\\000." + name) is pushed and the signer is asked to sign the
\* section under NSEC while that record is alone in it; then the SOA of the
\* host is pushed and the signer is asked to sign under SOA.
C23_DenialOrder ==
    (fnArgs.fn = "sendSOA" /\ fnRes.done) =>
        LET res  == fnRes.res
            auth == res.authority
        IN  /\ ~fnRes.threw
            /\ res.answer = <<>>
            /\ res.aa = TRUE
            /\ Len(fnRes.calls) = 3
            /\ fnRes.calls[1] = [ Call("signRRSet", <<>>, NSEC) EXCEPT
                                    !.sec = "authority", !.rrs = << NSEC >> ]
            /\ fnRes.calls[2] = Call("toSOA", <<>>, SOA)
            /\ fnRes.calls[3] = [ Call("signRRSet", <<>>, SOA) EXCEPT
                                    !.sec = "authority", !.rrs = << NSEC, RRSIG, SOA >> ]
            /\ Len(auth) = 4
            /\ auth[1].type = NSEC
            /\ auth[1].name = fnArgs.name
            /\ auth[1].nextDomain = AfterName(fnArgs.name)
            /\ auth[2] = SigRecord(fnArgs.name, NSEC)
            /\ auth[3] = ToSOA
            /\ auth[4] = SigRecord(ToSOA.name, SOA)

\* a denial for www.eth has been built
C23_Witness ==
    /\ fnArgs.fn = "sendSOA"
    /\ fnArgs.name = << "www", "eth" >>
    /\ fnArgs.type = AAAA
    /\ fnRes.done
    /\ fnRes.calls[1].rrs = << NSEC >>
    /\ fnRes.res.authority[1].nextDomain = << "\\000", "www", "eth" >>
    /\ [ i \in 1..Len(fnRes.res.authority) |-> fnRes.res.authority[i].type ] =
          << NSEC, RRSIG, SOA, RRSIG >>

\* the types a zone cut or an alias would carry
CutTypes == { NS, SOA, CNAME, DS }

\* the record types the design enumerates
EnumeratedTypes ==
    { A, AAAA, NS, SOA, CNAME, DS, NSEC, RRSIG, MX, TXT, HINFO, LOC, SRV,
      NAPTR, CERT, SSHFP, DNSKEY, TLSA, SMIMEA, HIP, CDS, CDNSKEY,
      OPENPGPKEY, SPF, URI, CAA }

\* C24: TYPE_MAP_ALL lists, once each, the 22 enumerated types that are not
\* NS, SOA, CNAME or DS, and no other type; so the bitmap of a denial for a
\* name below the tld asserts exactly those types less the queried one, and
\* never NS, SOA, CNAME or DS.
C24_TypeSet ==
    /\ Range(TYPE_MAP_ALL) = EnumeratedTypes \ CutTypes
    /\ Len(TYPE_MAP_ALL) = 22
    /\ Cardinality(Range(TYPE_MAP_ALL)) = 22
    /\ (fnArgs.fn = "sendSOA" /\ fnRes.done /\ fnArgs.name # fnArgs.tld) =>
          BitmapTypes(fnRes.res.authority[1].typeBitmap) =
              (EnumeratedTypes \ CutTypes) \ { fnArgs.type }

\* a denial for an NS query below the tld: all 22 types asserted, NS not
C24_Witness ==
    /\ fnArgs.fn = "sendSOA"
    /\ fnRes.done
    /\ fnArgs.name = << "www", "eth" >>
    /\ fnArgs.type = NS
    /\ Cardinality(BitmapTypes(fnRes.res.authority[1].typeBitmap)) = 22
    /\ BitmapTypes(fnRes.res.authority[1].typeBitmap) \cap CutTypes = {}

\* C24 as stated: TYPE_MAP_ALL is the whole enumeration of 26 types
C24_Original ==
    /\ Range(TYPE_MAP_ALL) = EnumeratedTypes
    /\ (fnArgs.fn = "sendSOA" /\ fnRes.done /\ fnArgs.name # fnArgs.tld) =>
          BitmapTypes(fnRes.res.authority[1].typeBitmap) =
              EnumeratedTypes \ { fnArgs.type }

=============================================================================
